---- MODULE Spec2Model ----
(***************************************************************************)
(* BookStack connector (backend/danswer/connectors/bookstack/connector.py) *)
(* as a state machine: the connector object, the generator returned by     *)
(* poll_source, the remote wiki it talks to, and what the consumer of the  *)
(* generator has been handed so far.                                       *)
(*                                                                         *)
(* Python values that may be None are wrapped: None is <<>> and a value v  *)
(* is <<v>>.  A dict is a function whose DOMAIN is its key set.  Strings   *)
(* are TLA+ strings; str(), int() and strftime are computed digit by digit.*)
(***************************************************************************)
EXTENDS Integers, Sequences, FiniteSets, TLC

\* ------------------------------------------------------------------ bounds
\* Largest number of records a remote collection holds.
MaxN == 2
\* Largest number of records the wiki holds in all its collections.
MaxRecords == 3
\* Largest positive batch_size the connector is constructed with.
MaxBatch == 2
\* Request counters stop counting here (more than any terminating scan needs).
MaxCount == MaxN + 2

\* --------------------------------------------------------- Python values
None == <<>>
Some(v) == <<v>>

Min(a, b) == IF a < b THEN a ELSE b
Max(a, b) == IF a < b THEN b ELSE a
Sat(n) == Min(n, MaxCount)

\* dict.get(k) and dict.get(k, default)
Get(d, k) == IF k \in DOMAIN d THEN d[k] ELSE None
GetDefault(d, k, dflt) == IF k \in DOMAIN d THEN d[k] ELSE Some(dflt)
\* d with key k removed / d with d[k] = v
Without(d, k) == [x \in DOMAIN d \ {k} |-> d[x]]
With(d, k, v) == [x \in DOMAIN d \cup {k} |-> IF x = k THEN v ELSE d[x]]

\* str(n) for an int
Digit(d) == SubSeq("0123456789", d + 1, d + 1)
RECURSIVE NatStr(_)
NatStr(n) == IF n < 10 THEN Digit(n) ELSE NatStr(n \div 10) \o Digit(n % 10)
IntStr(n) == IF n < 0 THEN "-" \o NatStr(-n) ELSE NatStr(n)
\* str(x) where x is an optional int / an optional string
StrOfInt(o) == IF o = None THEN "None" ELSE IntStr(o[1])
StrOfStr(o) == IF o = None THEN "None" ELSE o[1]

\* int(s), as the remote reads "count" and "offset" back
DigitVal(c) == CHOOSE d \in 0..9 : Digit(d) = c
\* The number written by the characters first..last of s.
RECURSIVE ParseNat(_, _, _)
ParseNat(s, first, last) ==
  IF last < first THEN 0
  ELSE ParseNat(s, first, last - 1) * 10 + DigitVal(SubSeq(s, last, last))
ParseInt(s) ==
  IF Len(s) > 0 /\ SubSeq(s, 1, 1) = "-" THEN 0 - ParseNat(s, 2, Len(s))
  ELSE ParseNat(s, 1, Len(s))

\* ------------------------------------------- datetime.utcfromtimestamp(t)
\* .strftime("%Y-%m-%d %H:%M:%S"), for whole seconds t >= 0 (proleptic
\* Gregorian calendar, days counted from 0000-03-01).
Pad2(n) == IF n < 10 THEN "0" \o NatStr(n) ELSE NatStr(n)
Pad4(n) ==
  IF n < 10 THEN "000" \o NatStr(n)
  ELSE IF n < 100 THEN "00" \o NatStr(n)
  ELSE IF n < 1000 THEN "0" \o NatStr(n)
  ELSE NatStr(n)
CivilFromDays(days) ==
  LET z == days + 719468
      era == z \div 146097
      doe == z - era * 146097
      yoe == (doe - doe \div 1460 + doe \div 36524 - doe \div 146096) \div 365
      doy == doe - (365 * yoe + yoe \div 4 - yoe \div 100)
      mp == (5 * doy + 2) \div 153
      d == doy - (153 * mp + 2) \div 5 + 1
      m == IF mp < 10 THEN mp + 3 ELSE mp - 9
      y == yoe + era * 400 + (IF m <= 2 THEN 1 ELSE 0)
  IN  [year |-> y, month |-> m, day |-> d]
FormatTime(t) ==
  LET date == CivilFromDays(t \div 86400)
      secs == t % 86400
  IN  Pad4(date.year) \o "-" \o Pad2(date.month) \o "-" \o Pad2(date.day) \o " "
      \o Pad2(secs \div 3600) \o ":" \o Pad2((secs % 3600) \div 60) \o ":"
      \o Pad2(secs % 60)

\* --------------------------------------------------------------- inputs
\* batch_size values the constructor is called with (it accepts any int).
BatchSizes == {-1, 0} \cup (1..MaxBatch)
\* start / end of poll_source: None, the epoch itself, a later instant.
TimeBounds == {None, Some(0), Some(1700000000)}

\* ------------------------------------------------------ the remote wiki
Endpoints == {"/books", "/chapters", "/shelves", "/pages"}

\* The i-th record (ascending id) a listing endpoint holds.  The /pages
\* listing omits the page body.
BaseRecord(e, i) ==
  IF e = "/books" \/ e = "/shelves" THEN
    [id |-> Some(i), slug |-> Some("s" \o IntStr(i)), name |-> Some("Intro"),
     description |-> Some("d"), updated_at |-> Some("2024-01-01")]
  ELSE IF e = "/chapters" THEN
    [id |-> Some(i), book_slug |-> Some("b1"), slug |-> Some("s" \o IntStr(i)),
     name |-> Some("Intro"), description |-> Some("d"),
     updated_at |-> Some("2024-01-01")]
  ELSE
    [id |-> Some(i), book_slug |-> Some("b1"), name |-> Some("P1")]

\* Ways one record of the remote data departs from the full shape: the
\* "id" key is absent, or "name" is present and null.
DefectKinds == {"no_id", "null_name"}
Damaged(rec, kind) ==
  IF kind = "no_id" THEN Without(rec, "id") ELSE With(rec, "name", None)

\* A collection of n records sorted by ascending id; with a defect, its last
\* record is the damaged one.
Collection(e, n, kind) ==
  [i \in 1..n |->
     IF i = n /\ kind \in DefectKinds THEN Damaged(BaseRecord(e, i), kind)
     ELSE BaseRecord(e, i)]

\* The remote data sets scans run against.  Sound data: every size 0..MaxN
\* per endpoint, at most MaxRecords records in all.  Damaged data: one
\* collection of 1..MaxN records whose last record is damaged, and a single
\* sound record in each of the others.
SumOf(size) == size["/books"] + size["/chapters"] + size["/shelves"] + size["/pages"]
SoundData ==
  {[e \in Endpoints |-> Collection(e, size[e], "none")] :
     size \in {z \in [Endpoints -> 0..MaxN] : SumOf(z) <= MaxRecords}}
DamagedData ==
  {[e \in Endpoints |-> IF e = d THEN Collection(e, n, kind) ELSE Collection(e, 1, "none")] :
     <<d, kind, n>> \in Endpoints \X DefectKinds \X (1..MaxN)}
RemoteData == SoundData \cup DamagedData

\* How the server answers a listing request: it serves at most cap records
\* whatever count asks for, and its JSON holds the "data" key or not.  For a
\* connector with batch size bs: a server that serves count records, one
\* that caps at a single record, one whose answers hold no "data".
Servers(bs) ==
  {[cap |-> c, data_key |-> TRUE] : c \in {1, Max(bs, 1)}}
    \cup {[cap |-> Max(bs, 1), data_key |-> FALSE]}

\* What GET /pages/<id> answers for a page the wiki holds, and for a path
\* that names no page.
PageDetail(rec) ==
  [slug |-> Some("p" \o StrOfInt(Get(rec, "id"))), html |-> Some("<p>hello</p>"),
   updated_at |-> Some("t")]
NoPageDetail == [k \in {} |-> None]

\* ------------------------------------------------------- the API client
\* Credentials the caller passes to load_credentials: the three required
\* keys, or a mapping that lacks the token secret.
FullCredentials ==
  [bookstack_base_url |-> "https://wiki", bookstack_api_token_id |-> "id",
   bookstack_api_token_secret |-> "secret"]
CredentialInputs == {FullCredentials, Without(FullCredentials, "bookstack_api_token_secret")}
CredentialKeys ==
  {"bookstack_base_url", "bookstack_api_token_id", "bookstack_api_token_secret"}

BookStackApiClient(credentials) ==
  [base_url |-> credentials["bookstack_base_url"],
   token_id |-> credentials["bookstack_api_token_id"],
   token_secret |-> credentials["bookstack_api_token_secret"]]
build_app_url(client, path) == client.base_url \o path

\* ---------------------------------------------------------- text helpers
\* html.escape(s): & < > " ' become entities.
EscapeChar(c) ==
  IF c = "&" THEN "&amp;"
  ELSE IF c = "<" THEN "&lt;"
  ELSE IF c = ">" THEN "&gt;"
  ELSE IF c = "\"" THEN "&quot;"
  ELSE IF c = "'" THEN "&#x27;"
  ELSE c
RECURSIVE EscapeFrom(_, _)
EscapeFrom(s, i) ==
  IF i > Len(s) THEN ""
  ELSE EscapeChar(SubSeq(s, i, i)) \o EscapeFrom(s, i + 1)
HtmlEscape(s) == EscapeFrom(s, 1)

\* BeautifulSoup(markup, "html.parser").get_text(separator): the text nodes
\* of the markup, in document order, joined by the separator.  Markup here
\* holds tags and plain text only.
HTML_SEPARATOR == "\n"
\* The text nodes of s from character i on; inTag: i lies inside a tag; cur:
\* the text node being read; acc: the text nodes read.
RECURSIVE TextNodes(_, _, _, _, _)
TextNodes(s, i, inTag, cur, acc) ==
  IF i > Len(s) THEN (IF Len(cur) > 0 THEN Append(acc, cur) ELSE acc)
  ELSE IF inTag THEN TextNodes(s, i + 1, SubSeq(s, i, i) # ">", cur, acc)
  ELSE IF SubSeq(s, i, i) = "<"
    THEN TextNodes(s, i + 1, TRUE, "", IF Len(cur) > 0 THEN Append(acc, cur) ELSE acc)
  ELSE TextNodes(s, i + 1, FALSE, cur \o SubSeq(s, i, i), acc)
RECURSIVE Join(_, _, _)
Join(nodes, i, sep) ==
  IF i > Len(nodes) THEN ""
  ELSE IF i = Len(nodes) THEN nodes[i]
  ELSE nodes[i] \o sep \o Join(nodes, i + 1, sep)
SoupGetText(markup, sep) == Join(TextNodes(markup, 1, FALSE, "", <<>>), 1, sep)

\* ---------------------------------------------------------- transformers
\* A transformer returns a Document or raises; Returned / Raised are the two
\* outcomes.
NoDocument == [id |-> ""]
Returned(doc) == [raised |-> "", doc |-> doc]
Raised(err) == [raised |-> err, doc |-> NoDocument]

Section(link, text) == [link |-> link, text |-> text]
Document(id, sections, semantic_identifier, metadata) ==
  [id |-> id, sections |-> sections, source |-> "bookstack",
   semantic_identifier |-> semantic_identifier, metadata |-> metadata]

\* x.get("name", "") + "\n" + x.get("description", ""): a str, or TypeError
\* when either value is null.
NameAndDescription(rec) ==
  LET name == GetDefault(rec, "name", "")
      description == GetDefault(rec, "description", "")
  IN  IF name = None \/ description = None THEN None
      ELSE Some(name[1] \o "\n" \o description[1])

_book_to_document(client, book) ==
  LET url == build_app_url(client, "/books/" \o StrOfStr(Get(book, "slug")))
      text == NameAndDescription(book)
  IN  IF text = None THEN Raised("TypeError")
      ELSE Returned(Document(
             "book:" \o StrOfInt(Get(book, "id")),
             <<Section(url, text[1])>>,
             "Book: " \o StrOfStr(Get(book, "name")),
             [type |-> "book", updated_at |-> Some(StrOfStr(Get(book, "updated_at")))]))

_chapter_to_document(client, chapter) ==
  LET url == build_app_url(client,
               "/books/" \o StrOfStr(Get(chapter, "book_slug"))
                 \o "/chapter/" \o StrOfStr(Get(chapter, "slug")))
      text == NameAndDescription(chapter)
  IN  IF text = None THEN Raised("TypeError")
      ELSE Returned(Document(
             "chapter:" \o StrOfInt(Get(chapter, "id")),
             <<Section(url, text[1])>>,
             "Chapter: " \o StrOfStr(Get(chapter, "name")),
             [type |-> "chapter",
              updated_at |-> Some(StrOfStr(Get(chapter, "updated_at")))]))

\* Variant: the shelf transformer is the book transformer.
_shelf_as_book_to_document(client, shelf) == _book_to_document(client, shelf)
_shelf_to_document(client, shelf) ==
  LET url == build_app_url(client, "/shelves/" \o StrOfStr(Get(shelf, "slug")))
      text == NameAndDescription(shelf)
  IN  IF text = None THEN Raised("TypeError")
      ELSE Returned(Document(
             "shelf:" \o StrOfInt(Get(shelf, "id")),
             <<Section(url, text[1])>>,
             "Shelf: " \o StrOfStr(Get(shelf, "name")),
             [type |-> "shelf", updated_at |-> Get(shelf, "updated_at")]))

\* The path of the supplementary request, and the Document built from its
\* answer page_data.  The time.sleep(0.1) before the return changes no state.
PagePath(page) == "/pages/" \o StrOfInt(Get(page, "id"))
_page_to_document(client, page, page_data) ==
  LET page_id == StrOfInt(Get(page, "id"))
      page_name == StrOfStr(Get(page, "name"))
      url == build_app_url(client,
               "/books/" \o StrOfStr(Get(page, "book_slug"))
                 \o "/page/" \o StrOfStr(Get(page_data, "slug")))
      page_html == "<h1>" \o HtmlEscape(page_name) \o "</h1>"
                     \o StrOfStr(Get(page_data, "html"))
      text == SoupGetText(page_html, HTML_SEPARATOR)
  IN  Returned(Document(
        "page:" \o page_id,
        <<Section(url, text)>>,
        "Page: " \o page_name,
        [type |-> "page", updated_at |-> Get(page_data, "updated_at")]))

\* Variant: /pages is listed before /shelves.
transform_by_endpoint_pages_first ==
  <<[endpoint |-> "/books", transform |-> "_book_to_document"],
    [endpoint |-> "/chapters", transform |-> "_chapter_to_document"],
    [endpoint |-> "/pages", transform |-> "_page_to_document"],
    [endpoint |-> "/shelves", transform |-> "_shelf_to_document"]>>
\* transform_by_endpoint, in the dict's insertion order.
transform_by_endpoint ==
  <<[endpoint |-> "/books", transform |-> "_book_to_document"],
    [endpoint |-> "/chapters", transform |-> "_chapter_to_document"],
    [endpoint |-> "/shelves", transform |-> "_shelf_to_document"],
    [endpoint |-> "/pages", transform |-> "_page_to_document"]>>

\* transformer(bookstack_client, item); page_data is read by the page
\* transformer alone.
Transform(name, client, item, page_data) ==
  IF name = "_book_to_document" THEN _book_to_document(client, item)
  ELSE IF name = "_chapter_to_document" THEN _chapter_to_document(client, item)
  ELSE IF name = "_shelf_to_document" THEN _shelf_to_document(client, item)
  ELSE _page_to_document(client, item, page_data)
IssuesPageRequest(name) == name = "_page_to_document"

\* ------------------------------------------------------------------ state
VARIABLES
  batch_size,        \* self.batch_size
  bookstack_client,  \* self.bookstack_client: None or Some(client)
  remote,            \* the wiki: endpoint -> its records, ascending id
  server,            \* how the wiki's server answers listing requests
  gen,               \* the generator poll_source last returned
  out,               \* the batches that generator has yielded, in order
  log,               \* the requests that generator has issued
  lastCall           \* the caller's last call of a fetch operation, and what it raised

vars == <<batch_size, bookstack_client, remote, server, gen, out, log, lastCall>>

NoGenerator ==
  [pc |-> "none", start |-> None, end |-> None, ep |-> 1, start_ind |-> 0, err |-> ""]
NewGenerator(start, end) ==
  [pc |-> "created", start |-> start, end |-> end, ep |-> 1, start_ind |-> 0, err |-> ""]
EmptyLog ==
  [order |-> <<>>,                         \* endpoints in order of first request
   nfetch |-> [e \in Endpoints |-> 0],     \* listing requests per endpoint
   off |-> [e \in Endpoints |-> 0],        \* offset the remote read in the last one
   num |-> [e \in Endpoints |-> 0],        \* records it answered with
   params |-> [k \in {} |-> ""],           \* query parameters of the last one
   npage |-> 0,                            \* GET /pages/<id> requests
   failures |-> 0,                         \* requests the remote failed
   faithful |-> TRUE]                      \* every answer held all the records due

Init ==
  /\ batch_size \in BatchSizes
  /\ bookstack_client = None
  /\ remote \in RemoteData
  /\ server \in Servers(batch_size)
  /\ gen = NoGenerator
  /\ out = <<>>
  /\ log = EmptyLog
  /\ lastCall = [op |-> "__init__", raised |-> ""]

\* ---------------------------------------------------------- _get_doc_batch
\* "if start:" / "if end:" on an optional number.
Truthy(o) == o # None /\ o[1] # 0

Params(bs, start_ind, start, end) ==
  LET base == [count |-> IntStr(bs), offset |-> IntStr(start_ind), sort |-> "+id"]
      withStart == IF Truthy(start)
                     THEN With(base, "filter[updated_at:gte]", FormatTime(start[1]))
                     ELSE base
  IN  IF Truthy(end)
        THEN With(withStart, "filter[updated_at:lte]", FormatTime(end[1]))
        ELSE withStart

\* The records a listing request is due: count of them from offset on.
DueRecords(collection, params) ==
  LET count == ParseInt(params["count"])
      offset == ParseInt(params["offset"])
      n == Min(Max(count, 0), Max(Len(collection) - offset, 0))
  IN  SubSeq(collection, offset + 1, offset + n)

\* What bookstack_client.get(endpoint, params) can do: raise (any remote
\* failure), or return the server's JSON mapping.
Failure == [failed |-> TRUE, json |-> [k \in {} |-> <<>>]]
Answer(json) == [failed |-> FALSE, json |-> json]
ServerJson(srv, collection, params) ==
  LET due == DueRecords(collection, params)
  IN  IF srv.data_key THEN [data |-> SubSeq(due, 1, Min(Len(due), srv.cap))]
      ELSE [k \in {} |-> <<>>]
ListingAnswers(srv, collection, params) ==
  {Failure, Answer(ServerJson(srv, collection, params))}

\* What GET /pages/<id> returns when it does not raise.
PageAnswer(pages, path) ==
  LET held == {i \in 1..Len(pages) : "id" \in DOMAIN pages[i] /\ PagePath(pages[i]) = path}
  IN  IF held = {} THEN NoPageDetail ELSE PageDetail(pages[CHOOSE i \in held : TRUE])

\* for item in batch: doc_batch.append(transformer(bookstack_client, item)),
\* from item i on, with docs the doc_batch so far.  failAt > 0 names the item
\* whose GET /pages/<id> raises.  The walk ends with the first exception.
RECURSIVE TransformItems(_, _, _, _, _, _, _)
TransformItems(transformer, client, batch, failAt, pages, i, docs) ==
  IF i > Len(batch)
    THEN [raised |-> "", docs |-> docs,
          page_requests |-> IF IssuesPageRequest(transformer) THEN Len(batch) ELSE 0]
  ELSE IF IssuesPageRequest(transformer) /\ i = failAt
    THEN [raised |-> "RemoteError", docs |-> docs, page_requests |-> i]
  ELSE LET result == Transform(transformer, client, batch[i],
                               PageAnswer(pages, PagePath(batch[i])))
       IN  IF result.raised # ""
             THEN [raised |-> result.raised, docs |-> docs,
                   page_requests |-> IF IssuesPageRequest(transformer) THEN i ELSE 0]
           ELSE TransformItems(transformer, client, batch, failAt, pages, i + 1,
                               Append(docs, result.doc))

\* One call of _get_doc_batch.  answer is what the listing request does.  The
\* result holds what the call raised, or doc_batch and len(batch); partial is
\* doc_batch as it stood when the call ended.
_get_doc_batch(bs, client, endpoint, transformer, start_ind, start, end, answer, failAt, pages) ==
  LET params == Params(bs, start_ind, start, end)
      batch == IF "data" \in DOMAIN answer.json THEN answer.json["data"] ELSE <<>>
  IN  IF answer.failed
        THEN [raised |-> "RemoteError", params |-> params, doc_batch |-> <<>>,
              num_results |-> 0, partial |-> <<>>, page_requests |-> 0,
              failed_requests |-> 1]
      ELSE CHOOSE r \in
             {[raised |-> t.raised,
               params |-> params,
               doc_batch |-> IF t.raised = "" THEN t.docs ELSE <<>>,
               num_results |-> IF t.raised = "" THEN Len(batch) ELSE 0,
               partial |-> t.docs,
               page_requests |-> t.page_requests,
               failed_requests |-> IF t.raised = "RemoteError" THEN 1 ELSE 0] :
                t \in {TransformItems(transformer, client, batch, failAt, pages, 1, <<>>)}} :
             TRUE

\* ------------------------------------------------------------ poll_source
\* Variant: start_ind = num_results
AssignStartInd(start_ind, num_results) == num_results
\* start_ind += num_results
NextStartInd(start_ind, num_results) == start_ind + num_results
\* Variant: every doc_batch is yielded.
YieldAlways(doc_batch) == TRUE
\* if doc_batch:
ShouldYield(doc_batch) == doc_batch # <<>>
\* Variants: the loop ends on an empty page only; it ends on a full page too.
EndOnEmptyPage(num_results, bs) == num_results = 0
EndOnFullPage(num_results, bs) == num_results <= bs
\* if num_results < self.batch_size: break
EndOfCollection(num_results, bs) == num_results < bs
\* Variant: the exception is swallowed and the turn is taken again.
SwallowAndRetry(g, err) == g
\* An exception raised inside the generator body is caught nowhere: it
\* leaves the generator, which is then finished.
Propagate(g, err) == [g EXCEPT !.pc = "raised", !.err = err]

\* The batches yielded once a call of _get_doc_batch has ended with r.
YieldedAfter(yielded, endpoint, r) ==
  IF r.raised # "" THEN yielded
  ELSE IF ShouldYield(r.doc_batch)
    THEN Append(yielded, [endpoint |-> endpoint, docs |-> r.doc_batch])
  ELSE yielded

\* The generator once a call of _get_doc_batch has ended with r: finished by
\* the exception, about to sleep before the next page, at the next endpoint
\* with start_ind = 0, or returned.
GeneratorAfter(g, r, bs) ==
  IF r.raised # "" THEN Propagate(g, r.raised)
  ELSE IF ~EndOfCollection(r.num_results, bs)
    THEN [g EXCEPT !.pc = "sleeping", !.start_ind = NextStartInd(g.start_ind, r.num_results)]
  ELSE IF g.ep < Len(transform_by_endpoint)
    THEN [g EXCEPT !.ep = g.ep + 1, !.start_ind = 0]
  ELSE [g EXCEPT !.pc = "returned", !.start_ind = NextStartInd(g.start_ind, r.num_results)]

\* The request log once the remote has served that call.
LogAfter(l, endpoint, collection, answer, r) ==
  LET answered == IF answer.failed \/ "data" \notin DOMAIN answer.json
                    THEN <<>> ELSE answer.json["data"]
  IN  [order |-> IF l.order # <<>> /\ l.order[Len(l.order)] = endpoint
                   THEN l.order ELSE Append(l.order, endpoint),
       nfetch |-> [l.nfetch EXCEPT ![endpoint] = Sat(@ + 1)],
       off |-> [l.off EXCEPT ![endpoint] = ParseInt(r.params["offset"])],
       num |-> [l.num EXCEPT ![endpoint] = Len(answered)],
       params |-> r.params,
       npage |-> Sat(l.npage + r.page_requests),
       failures |-> Sat(l.failures + r.failed_requests),
       faithful |-> l.faithful /\ ~answer.failed
                      /\ "data" \in DOMAIN answer.json
                      /\ answered = DueRecords(collection, r.params)]

\* ---------------------------------------------------------------- actions
\* load_credentials(credentials): KeyError on a missing key, else the client
\* is stored.
LoadCredentials ==
  \E credentials \in CredentialInputs :
    /\ bookstack_client' =
         IF CredentialKeys \subseteq DOMAIN credentials
           THEN Some(BookStackApiClient(credentials))
           ELSE bookstack_client
    /\ UNCHANGED <<batch_size, remote, server, gen, out, log, lastCall>>

\* poll_source(start, end): the body holds a yield, so the call runs none of
\* it; it returns a new generator.  The caller keeps the newest generator:
\* out and log start afresh with it.
PollSource ==
  \E start \in TimeBounds, end \in TimeBounds :
    /\ gen' = NewGenerator(start, end)
    /\ out' = <<>>
    /\ log' = EmptyLog
    /\ lastCall' = [op |-> "poll_source", raised |-> ""]
    /\ UNCHANGED <<batch_size, bookstack_client, remote, server>>

\* load_from_state(): an ordinary function; it raises at the call when no
\* client is set, else returns poll_source(None, None).
LoadFromState ==
  /\ IF bookstack_client = None
       THEN /\ lastCall' = [op |-> "load_from_state",
                            raised |-> "BookstackClientNotSetUpError"]
            /\ UNCHANGED <<gen, out, log>>
       ELSE /\ gen' = NewGenerator(None, None)
            /\ out' = <<>>
            /\ log' = EmptyLog
            /\ lastCall' = [op |-> "load_from_state", raised |-> ""]
  /\ UNCHANGED <<batch_size, bookstack_client, remote, server>>

\* The consumer's first next(): the body starts, checks the client, and
\* enters the loop over transform_by_endpoint with start_ind = 0.
GenStart ==
  /\ gen.pc = "created"
  /\ gen' = IF bookstack_client = None
              THEN Propagate(gen, "BookstackClientNotSetUpError")
              ELSE [gen EXCEPT !.pc = "running", !.ep = 1, !.start_ind = 0]
  /\ UNCHANGED <<batch_size, bookstack_client, remote, server, out, log, lastCall>>

\* The GET /pages/<id> requests the items of an answer call for.
PageRequestsOf(transformer, answer) ==
  IF IssuesPageRequest(transformer) /\ ~answer.failed /\ "data" \in DOMAIN answer.json
    THEN Len(answer.json["data"]) ELSE 0

\* One turn of the while loop: _get_doc_batch, start_ind += num_results,
\* the yield of a non-empty doc_batch, and the end-of-collection test (which
\* the generator runs when the consumer resumes it after the yield).
Iterate ==
  /\ gen.pc = "running"
  /\ bookstack_client # None
  /\ \E t \in {transform_by_endpoint[gen.ep]} :
     \E params \in {Params(batch_size, gen.start_ind, gen.start, gen.end)} :
         \E answer \in ListingAnswers(server, remote[t.endpoint], params) :
         \E failAt \in 0..PageRequestsOf(t.transform, answer) :
         \E r \in {_get_doc_batch(batch_size, bookstack_client[1], t.endpoint,
                                   t.transform, gen.start_ind, gen.start, gen.end,
                                   answer, failAt, remote["/pages"])} :
           /\ gen' = GeneratorAfter(gen, r, batch_size)
           /\ out' = YieldedAfter(out, t.endpoint, r)
           /\ log' = LogAfter(log, t.endpoint, remote[t.endpoint], answer, r)
  /\ UNCHANGED <<batch_size, bookstack_client, remote, server, lastCall>>

\* time.sleep(0.2) after a full page, then the next turn of the loop.
Sleep ==
  /\ gen.pc = "sleeping"
  /\ gen' = [gen EXCEPT !.pc = "running"]
  /\ UNCHANGED <<batch_size, bookstack_client, remote, server, out, log, lastCall>>

Resume == GenStart \/ Iterate \/ Sleep

Next == LoadCredentials \/ PollSource \/ LoadFromState \/ GenStart \/ Iterate \/ Sleep

Spec == Init /\ [][Next]_vars

\* The consumer as a for loop over the generator: it iterates the generator
\* it holds until that is exhausted (a turn that can be taken is taken), and
\* calls a fetch operation again only then.  Liveness is checked against a
\* wiki of at most one record and a server that answers with the records due.
CallerIdle == gen.pc \in {"none", "returned", "raised"}
LiveNext ==
  \/ LoadCredentials
  \/ CallerIdle /\ PollSource
  \/ CallerIdle /\ LoadFromState
  \/ GenStart
  \/ Iterate
  \/ Sleep
LiveInit ==
  /\ Init
  /\ Len(remote["/books"]) + Len(remote["/chapters"]) + Len(remote["/shelves"])
       + Len(remote["/pages"]) <= 1
  /\ server = [cap |-> Max(batch_size, 1), data_key |-> TRUE]
FairSpec == LiveInit /\ [][LiveNext]_vars /\ WF_vars(Resume)

\* ------------------------------------------------------- claim vocabulary
ListingOrder == <<"/books", "/chapters", "/shelves", "/pages">>
ResourceType(endpoint) ==
  IF endpoint = "/books" THEN "book"
  ELSE IF endpoint = "/chapters" THEN "chapter"
  ELSE IF endpoint = "/shelves" THEN "shelf"
  ELSE "page"
PositionOf(endpoint) == CHOOSE k \in 1..Len(ListingOrder) : ListingOrder[k] = endpoint
IsPrefix(s, t) == Len(s) <= Len(t) /\ s = SubSeq(t, 1, Len(s))
StartsWith(str, prefix) ==
  Len(str) >= Len(prefix) /\ SubSeq(str, 1, Len(prefix)) = prefix

\* The ids of the documents yielded so far for one endpoint, in order.
RECURSIVE ConcatDocs(_, _)
ConcatDocs(batches, endpoint) ==
  IF batches = <<>> THEN <<>>
  ELSE (IF batches[1].endpoint = endpoint THEN batches[1].docs ELSE <<>>)
         \o ConcatDocs(Tail(batches), endpoint)
YieldedIds(endpoint) ==
  LET docs == ConcatDocs(out, endpoint) IN [i \in 1..Len(docs) |-> docs[i].id]

Active == gen.pc \in {"running", "sleeping"}
Ended == gen.pc \in {"returned", "raised"}
\* The generator at hand took a turn of its loop (a listing request was
\* issued) in this step.
TookTurn == gen.pc = "running" /\ gen'.pc # "created" /\ log' # log
\* A fetch operation was called in this step.
Called == lastCall' # lastCall \/ (gen'.pc = "created" /\ gen' # gen)
\* The pagination of transform_by_endpoint[k] is over.
Finished(k) ==
  \/ gen.pc = "returned"
  \/ gen.pc \in {"running", "sleeping", "raised"} /\ k < gen.ep
\* A scan whose every answer held the records due, with a page size >= 1.
HonouredScan == log.faithful /\ batch_size >= 1

\* ------------------------------------------------------------------ claims
\* C1 (as stated): on a connector without a client, a call of load_from_state
\* or of poll_source raises BookstackClientNotSetUpError at the call.
C1_RaisesAtCall ==
  [][(bookstack_client = None /\ Called)
       => lastCall'.raised = "BookstackClientNotSetUpError"]_vars

\* C2: every batch handed to the consumer is a non-empty list.
C2_BatchesNonEmpty == \A i \in 1..Len(out) : out[i].docs # <<>>
\* A listing request was answered with zero records after a batch was yielded.
C2_Witness ==
  /\ out # <<>>
  /\ gen.pc # "raised"
  /\ \E e \in Endpoints : log.nfetch[e] > 0 /\ log.num[e] = 0

\* C3: the endpoints are requested in the order /books, /chapters, /shelves,
\* /pages, none is revisited, a batch is yielded only while its endpoint is
\* the one being requested, and a scan that returns has visited all four.
C3_EndpointOrder ==
  /\ [](/\ IsPrefix(log.order, ListingOrder)
        /\ \A i \in 1..Len(out) : \A j \in i..Len(out) :
             PositionOf(out[i].endpoint) <= PositionOf(out[j].endpoint)
        /\ gen.pc = "returned" => log.order = ListingOrder)
  /\ [][Len(out') > Len(out)
          => out'[Len(out')].endpoint = log'.order[Len(log'.order)]]_vars
\* A scan returned after yielding a batch from each of the four endpoints.
C3_Witness ==
  /\ gen.pc = "returned"
  /\ \A e \in Endpoints : \E i \in 1..Len(out) : out[i].endpoint = e

\* C4 (as stated): the parameters of every listing request hold
\* filter[updated_at:gte] exactly when start is not None, and
\* filter[updated_at:lte] exactly when end is not None.
C4_FilterIffProvided ==
  log.order # <<>> =>
    /\ ("filter[updated_at:gte]" \in DOMAIN log.params) <=> (gen.start # None)
    /\ ("filter[updated_at:lte]" \in DOMAIN log.params) <=> (gen.end # None)

\* C5: every yielded document has exactly one section, a non-empty id that
\* starts with the resource type of the endpoint it was listed from, and
\* that resource type as its metadata type.
C5_DocumentShape ==
  \A i \in 1..Len(out) : \A j \in 1..Len(out[i].docs) :
    LET doc == out[i].docs[j]
        type == ResourceType(out[i].endpoint)
    IN  /\ Len(doc.sections) = 1
        /\ Len(doc.id) > 0
        /\ StartsWith(doc.id, type \o ":")
        /\ doc.metadata.type = type
\* A document was yielded for a record without an "id".
C5_Witness ==
  \E i \in 1..Len(out) : \E j \in 1..Len(out[i].docs) :
    out[i].docs[j].id = ResourceType(out[i].endpoint) \o ":None"

\* C6 (as stated): a generator the consumer keeps iterating ends (it returns,
\* or a failed request makes it raise), whatever the batch size.
C6_ScanEnds == Active ~> Ended

\* C7: a failed request raises RemoteError out of the generator at once: one
\* failure at most, no batch yielded in the failing turn, and a generator that
\* has raised issues no request and yields no batch.
C7_RemoteFailureIsFatal ==
  /\ [](log.failures > 0
          => gen.pc = "raised" /\ gen.err = "RemoteError" /\ log.failures = 1)
  /\ [][/\ log'.failures > log.failures => out' = out
        /\ (gen.pc = "raised" /\ gen'.pc # "created")
             => (gen' = gen /\ out' = out /\ log' = log)]_vars
\* The second GET /pages/<id> of a page of two failed, after a batch of an
\* earlier endpoint had been yielded.
C7_Witness ==
  /\ gen.pc = "raised"
  /\ gen.err = "RemoteError"
  /\ log.failures = 1
  /\ log.num["/pages"] = 2
  /\ log.npage = 2
  /\ out # <<>>

\* C8 (as stated): paginating N records with page size P >= 1 against a
\* server that answers with the records due takes ceil(N/P) listing requests,
\* the last answered with fewer than P records.
Ceil(n, p) == (n + p - 1) \div p
C8_CeilFetches ==
  \A k \in 1..Len(transform_by_endpoint) :
    (HonouredScan /\ Finished(k)) =>
      LET e == transform_by_endpoint[k].endpoint
      IN  /\ log.nfetch[e] = Ceil(Len(remote[e]), batch_size)
          /\ log.num[e] < batch_size
\* C8 (amended): it takes floor(N/P) + 1 listing requests, the last answered
\* with N mod P records.
C8_FloorPlusOneFetches ==
  \A k \in 1..Len(transform_by_endpoint) :
    (HonouredScan /\ Finished(k)) =>
      LET e == transform_by_endpoint[k].endpoint
      IN  /\ log.nfetch[e] = Len(remote[e]) \div batch_size + 1
          /\ log.num[e] = Len(remote[e]) % batch_size
          /\ log.num[e] < batch_size
\* An honoured scan returned; one collection held a positive multiple of P
\* records and one held a number P does not divide.
C8_Witness ==
  /\ gen.pc = "returned"
  /\ HonouredScan
  /\ \E e \in Endpoints : Len(remote[e]) > 0 /\ Len(remote[e]) % batch_size = 0
  /\ \E e \in Endpoints : Len(remote[e]) % batch_size # 0

\* C9: the first listing request for an endpoint asks for offset 0, and each
\* later one for the previous offset plus the number of records the previous
\* answer held; offsets never decrease.
C9_OffsetAdvance ==
  [][TookTurn =>
       LET e == log'.order[Len(log'.order)]
       IN  /\ log'.off[e] = IF log.nfetch[e] = 0 THEN 0 ELSE log.off[e] + log.num[e]
           /\ log'.off[e] >= log.off[e]]_vars
\* An endpoint was requested a third time, at an offset of two.
C9_Witness == \E e \in Endpoints : log.nfetch[e] >= 3 /\ log.off[e] = 2

\* C10: an honoured scan that returns has yielded exactly one document per
\* remote record of every endpoint, in the collection's (ascending id)
\* order, in batches of at most P documents.
C10_Complete ==
  (gen.pc = "returned" /\ HonouredScan) =>
    /\ \A e \in Endpoints :
         YieldedIds(e) =
           [i \in 1..Len(remote[e]) |->
              ResourceType(e) \o ":" \o StrOfInt(Get(remote[e][i], "id"))]
    /\ \A i \in 1..Len(out) : Len(out[i].docs) <= batch_size
\* An honoured scan returned after more than one batch of one endpoint.
C10_Witness ==
  /\ gen.pc = "returned"
  /\ HonouredScan
  /\ \E e \in Endpoints : Len(remote[e]) > batch_size
====
